---- MODULE Spec2Model ----
(***************************************************************************)
(* Model of exact-reader: MultiFile (virtual concatenation of sources),    *)
(* the ring buffer VecDeque<u8>, and ExactReader (buffered seekable        *)
(* reader).  Sources are std::io::Cursor<Vec<u8>> as in the crate's tests  *)
(* and example: a read delivers min(requested, remaining) bytes.           *)
(*                                                                         *)
(* Offsets and indices are 0-based as in the source; byte sequences handed *)
(* to or returned from calls are TLA+ sequences.  The byte at logical      *)
(* stream offset k is k + 1, so the sources [1,2,3] and [4,5,6] of the     *)
(* crate's tests are the configuration sizes = (3, 3).                     *)
(***************************************************************************)
EXTENDS Integers, Sequences, FiniteSets, TLC

\* ------------------------------------------------------------------ bounds
MaxFiles == 2
MaxFileSize == 3
MaxRead == 2
MaxReadMF == 4
MaxDelta == 1
MaxDequeLen == 9
MaxExtend == 2
MaxClear == 2
NeedleFiles == 3
NeedleFileSize == 2
MaxWrapCap == 4
MaxGrowCap == 4
MaxGrowBy == 3
WordBits == 5

\* ------------------------------------------------------------------ state
VARIABLES
    sizes,             \* File::size of every source, [0..n-1 -> Nat]
    single,            \* TRUE: ExactReader<File<R>>, FALSE: ExactReader<MultiFile<R>>
    file,              \* the inner reader: cursor positions and MultiFile fields
    file_offset_view,  \* ExactReader::file_offset_view, [start, end] inclusive
    buffer,            \* ExactReader::buffer, the VecDeque<u8>
    buffer_offset,     \* ExactReader::buffer_offset
    seeked,            \* ExactReader::seeked, None or [some |-> target]
    status,            \* "ok", or "panic" once a call has panicked
    last,              \* the last call: its arguments and what it returned
    logical_pos,       \* the caller's position: what the last seek returned plus the bytes read since
    used,              \* kinds of calls made so far
    ideal,             \* the sequence an ideal double-ended queue holds after the same calls
    twin               \* an ExactReader over one source holding the whole stream

vars == <<sizes, single, file, file_offset_view, buffer, buffer_offset, seeked,
          status, last, logical_pos, used, ideal, twin>>

None == [none |-> TRUE]
Some(v) == [some |-> v]
IsSome(o) == "some" \in DOMAIN o

Min(a, b) == IF a <= b THEN a ELSE b
Max(a, b) == IF a >= b THEN a ELSE b

\* ------------------------------------------------------------------ sources
NFiles == Cardinality(DOMAIN sizes)

RECURSIVE SumSizes(_, _)
\* files[a..b].iter().map(|f| f.size).sum()
SumSizes(a, b) == IF a >= b THEN 0 ELSE sizes[a] + SumSizes(a + 1, b)

total_len == SumSizes(0, NFiles)

\* content of the whole stream at logical offset k
StreamByte(k) == k + 1

\* the stream bytes [a, b)
StreamBytes(a, b) == [i \in 1..(IF b > a THEN b - a ELSE 0) |-> StreamByte(a + i - 1)]

\* Cursor::read on source idx at position pos into a buffer of length n
CursorRead(idx, pos, n) ==
    LET avail == IF pos >= sizes[idx] THEN 0 ELSE sizes[idx] - pos
        k == Min(n, avail)
        base == SumSizes(0, idx) + pos
    IN [n |-> k, data |-> StreamBytes(base, base + k), pos |-> pos + k]

\* ------------------------------------------------------------------ utils.rs
Start(o) == [kind |-> "Start", off |-> o]
End(o) == [kind |-> "End", off |-> o]
Current(o) == [kind |-> "Current", off |-> o]

Ok(v) == [res |-> "ok", val |-> v]
Err == [res |-> "err", val |-> 0]
Panic == [res |-> "panic", val |-> 0]

\* the 64-bit integer types, scaled to WordBits bits: u64 and usize are
\* 0..UMax, i64 is IMin..IMax
UMax == 2 ^ WordBits - 1
IMax == 2 ^ (WordBits - 1) - 1
IMin == 0 - 2 ^ (WordBits - 1)

\* x as i64
AsI64(x) ==
    LET m == x % (2 ^ WordBits)
    IN IF m > IMax THEN m - 2 ^ WordBits ELSE m

\* a variant without the check for a negative position
calculate_seek_nocheck(size, current_offset, pos) ==
    LET base_pos == CASE pos.kind = "Start" -> 0
                      [] pos.kind = "End" -> size
                      [] pos.kind = "Current" -> current_offset
    IN Ok(base_pos + pos.off)

\* calculate_seek; "overflow" when base_pos + offset leaves i64, val being the
\* wrapped sum (the requests of the readers below stay far from that range)
calculate_seek(size, current_offset, pos) ==
    LET base_pos == CASE pos.kind = "Start" -> 0
                      [] pos.kind = "End" -> AsI64(size)
                      [] pos.kind = "Current" -> AsI64(current_offset)
        offset == AsI64(pos.off)
        new_pos == base_pos + offset
    IN IF new_pos > IMax \/ new_pos < IMin
       THEN [res |-> "overflow", val |-> AsI64(new_pos)]
       ELSE IF new_pos < 0 THEN Err ELSE Ok(new_pos)

\* Cursor::seek: the position may pass the end, never go below zero
CursorSeek(idx, pos, req) ==
    LET base_pos == CASE req.kind = "Start" -> 0
                      [] req.kind = "End" -> sizes[idx]
                      [] req.kind = "Current" -> pos
        new_pos == base_pos + req.off
    IN IF new_pos < 0 THEN Err ELSE Ok(new_pos)

\* ------------------------------------------------------------------ multifile.rs
MultiFileNew ==
    [pos |-> [i \in DOMAIN sizes |-> 0],
     current_file_idx |-> 0, infile_offset |-> 0, cumul_offset |-> 0]

RECURSIVE ScanBack(_, _, _, _)
\* the loop of needle_to_file taken when cumul_offset > needle
ScanBack(f, idx, res, needle) ==
    IF idx >= f.current_file_idx \/ idx >= NFiles THEN [kind |-> "unreachable"]
    ELSE IF res + sizes[idx] >= needle THEN [kind |-> "some", idx |-> idx]
    ELSE ScanBack(f, idx + 1, res + sizes[idx], needle)

RECURSIVE ScanFwd(_, _, _, _)
\* the loop of needle_to_file taken when cumul_offset < needle
ScanFwd(f, idx, res, needle) ==
    IF idx >= NFiles THEN [kind |-> "unreachable"]
    ELSE IF res + sizes[idx] > needle THEN [kind |-> "some", idx |-> idx]
    ELSE ScanFwd(f, idx + 1, res + sizes[idx], needle)

needle_to_file(f, needle) ==
    IF needle > total_len THEN [kind |-> "none"]
    ELSE IF f.cumul_offset = needle THEN [kind |-> "some", idx |-> f.current_file_idx]
    ELSE IF f.cumul_offset > needle THEN ScanBack(f, 0, 0, needle)
    ELSE ScanFwd(f, f.current_file_idx, f.cumul_offset, needle)

physical_offset(f) == f.cumul_offset + f.infile_offset

RECURSIVE MFReadLoop(_, _, _, _, _)
\* the 'find loop of MultiFile::read: one File::read per source until buf is full
MFReadLoop(idx, infile, pos, data, expected) ==
    IF idx >= NFiles
    THEN [tail_idx |-> NFiles - 1, infile |-> infile, pos |-> pos, data |-> data]
    ELSE LET taken(r, data2, pos2) ==
                 IF Len(data2) = expected
                 THEN [tail_idx |-> idx, infile |-> r.n, pos |-> pos2, data |-> data2]
                 ELSE MFReadLoop(idx + 1, r.n, pos2, data2, expected)
             read(r) == taken(r, data \o r.data, [pos EXCEPT ![idx] = r.pos])
         IN read(CursorRead(idx, pos[idx], expected - Len(data)))

\* a variant that loses the bytes of a source it passes over
MultiFileRead_skip(f, expected) ==
    LET found(l, keep) ==
            [file |-> [pos |-> l.pos,
                       current_file_idx |-> l.tail_idx,
                       infile_offset |-> l.infile,
                       cumul_offset |-> f.cumul_offset
                                        + SumSizes(f.current_file_idx, l.tail_idx)],
             n |-> Len(keep), data |-> keep]
        cut(l) == found(l, IF l.tail_idx > f.current_file_idx /\ Len(l.data) > 0
                           THEN Tail(l.data) ELSE l.data)
    IN cut(MFReadLoop(f.current_file_idx, 0, f.pos, << >>, expected))

\* MultiFile::read with a buffer of length expected
MultiFileRead(f, expected) ==
    LET found(l) ==
            [file |-> [pos |-> l.pos,
                       current_file_idx |-> l.tail_idx,
                       infile_offset |-> l.infile,
                       cumul_offset |-> f.cumul_offset
                                        + SumSizes(f.current_file_idx, l.tail_idx)],
             n |-> Len(l.data), data |-> l.data]
    IN found(MFReadLoop(f.current_file_idx, 0, f.pos, << >>, expected))

\* a variant that keeps the old cumul_offset
MultiFileSeekTo_nocum(f, calculated_seek, calculated_idx) ==
    LET seek_to == calculated_seek - SumSizes(0, calculated_idx)
    IN IF seek_to < 0 THEN [res |-> "panic", val |-> 0, file |-> f, calls |-> 0]
       ELSE [res |-> "ok", val |-> calculated_seek,
             file |-> [f EXCEPT !.pos[calculated_idx] = seek_to,
                                !.current_file_idx = calculated_idx,
                                !.infile_offset = seek_to],
             calls |-> 1]

\* MultiFile::seek once the target and its source are known
MultiFileSeekTo(f, calculated_seek, calculated_idx) ==
    LET new_cum == SumSizes(0, calculated_idx)
        seek_to == calculated_seek - new_cum
        pos1 == [i \in DOMAIN sizes |->
                   IF calculated_idx > f.current_file_idx /\ i < calculated_idx
                   THEN sizes[i]
                   ELSE IF calculated_idx < f.current_file_idx
                           /\ i > calculated_idx /\ i <= f.current_file_idx
                   THEN 0
                   ELSE f.pos[i]]
        nseeks == IF calculated_idx > f.current_file_idx THEN calculated_idx
                  ELSE IF calculated_idx < f.current_file_idx
                  THEN f.current_file_idx - calculated_idx
                  ELSE 0
    IN IF seek_to < 0 THEN [res |-> "panic", val |-> 0, file |-> f, calls |-> 0]
       ELSE [res |-> "ok", val |-> new_cum + seek_to,
             file |-> [pos |-> [pos1 EXCEPT ![calculated_idx] = seek_to],
                       current_file_idx |-> calculated_idx,
                       cumul_offset |-> new_cum,
                       infile_offset |-> seek_to],
             calls |-> nseeks + 1]

\* a variant that forgets to rewind the sources passed over backwards
MultiFileSeek_norewind(f, req) ==
    LET c == calculate_seek(total_len, physical_offset(f), req)
        n == needle_to_file(f, c.val)
        r == MultiFileSeekTo(f, c.val, n.idx)
    IN IF c.res = "err" THEN [res |-> "err", val |-> 0, file |-> f, calls |-> 0]
       ELSE IF n.kind # "some" THEN [res |-> "panic", val |-> 0, file |-> f, calls |-> 0]
       ELSE IF r.res # "ok" THEN r
       ELSE [r EXCEPT !.file.pos = [i \in DOMAIN sizes |->
                                      IF i = n.idx THEN r.file.pos[i] ELSE f.pos[i]]]

\* MultiFile::seek
MultiFileSeek(f, req) ==
    LET c == calculate_seek(total_len, physical_offset(f), req)
        n == needle_to_file(f, c.val)
    IN IF c.res = "err" THEN [res |-> "err", val |-> 0, file |-> f, calls |-> 0]
       ELSE IF n.kind # "some" THEN [res |-> "panic", val |-> 0, file |-> f, calls |-> 0]
       ELSE MultiFileSeekTo(f, c.val, n.idx)

\* ------------------------------------------------------------------ vec_deq
MIN_NON_ZERO_CAP == 8

\* content of an allocated slot that was never written
Junk == 0

VecDequeNew == [head |-> 0, len |-> 0, cap |-> 0, slots |-> [i \in 0..-1 |-> Junk]]

wrap_index(logical_index, capacity) ==
    IF logical_index >= capacity THEN logical_index - capacity ELSE logical_index

wrap_add(b, idx, addend) == wrap_index(idx + addend, b.cap)

to_physical_idx(b, idx) == wrap_add(b, b.head, idx)

\* a variant that does not wrap the index into the buffer
wrap_sub_nowrap(b, idx, subtrahend) == idx - subtrahend + b.cap

wrap_sub(b, idx, subtrahend) == wrap_index(idx - subtrahend + b.cap, b.cap)

RECURSIVE copy_forward(_, _, _, _)
\* a variant that copies slot by slot from the low end, over slots not yet read
copy_forward(b, src, dst, len) ==
    IF len = 0 \/ src >= b.cap \/ dst >= b.cap THEN b
    ELSE copy_forward([b EXCEPT !.slots[dst] = b.slots[src]], src + 1, dst + 1, len - 1)

\* ptr::copy / ptr::copy_nonoverlapping of len slots from src to dst
copy(b, src, dst, len) ==
    [b EXCEPT !.slots = [i \in 0..(b.cap - 1) |->
        IF i >= dst /\ i < dst + len
        THEN (IF src + (i - dst) < b.cap THEN b.slots[src + (i - dst)] ELSE Junk)
        ELSE b.slots[i]]]

\* VecDeque::wrap_copy: the eight cases of (dst_after_src, src_wraps, dst_wraps)
wrap_copy(b, src, dst, len) ==
    IF src = dst \/ len = 0 THEN b
    ELSE LET dst_after_src == wrap_sub(b, dst, src) < len
             src_pre_wrap_len == b.cap - src
             dst_pre_wrap_len == b.cap - dst
             src_wraps == src_pre_wrap_len < len
             dst_wraps == dst_pre_wrap_len < len
         IN CASE ~src_wraps /\ ~dst_wraps ->
                     copy(b, src, dst, len)
              [] ~dst_after_src /\ ~src_wraps /\ dst_wraps ->
                     copy(copy(b, src, dst, dst_pre_wrap_len),
                          src + dst_pre_wrap_len, 0, len - dst_pre_wrap_len)
              [] dst_after_src /\ ~src_wraps /\ dst_wraps ->
                     copy(copy(b, src + dst_pre_wrap_len, 0, len - dst_pre_wrap_len),
                          src, dst, dst_pre_wrap_len)
              [] ~dst_after_src /\ src_wraps /\ ~dst_wraps ->
                     copy(copy(b, src, dst, src_pre_wrap_len),
                          0, dst + src_pre_wrap_len, len - src_pre_wrap_len)
              [] dst_after_src /\ src_wraps /\ ~dst_wraps ->
                     copy(copy(b, 0, dst + src_pre_wrap_len, len - src_pre_wrap_len),
                          src, dst, src_pre_wrap_len)
              [] ~dst_after_src /\ src_wraps /\ dst_wraps ->
                     copy(copy(copy(b, src, dst, src_pre_wrap_len),
                               0, dst + src_pre_wrap_len,
                               dst_pre_wrap_len - src_pre_wrap_len),
                          dst_pre_wrap_len - src_pre_wrap_len, 0, len - dst_pre_wrap_len)
              [] dst_after_src /\ src_wraps /\ dst_wraps ->
                     copy(copy(copy(b, 0, src_pre_wrap_len - dst_pre_wrap_len,
                                    len - src_pre_wrap_len),
                               b.cap - (src_pre_wrap_len - dst_pre_wrap_len), 0,
                               src_pre_wrap_len - dst_pre_wrap_len),
                          src, dst, dst_pre_wrap_len)

\* a variant that grows to what is required and no further
grow_exact(cap, len, additional) == len + additional

\* RawVec::grow_amortized: the new capacity
grow_amortized(cap, len, additional) ==
    Max(MIN_NON_ZERO_CAP, Max(cap * 2, len + additional))

\* global_grow: a new allocation holding the old slots, the rest never written
realloc(b, new_cap) ==
    [b EXCEPT !.cap = new_cap,
              !.slots = [i \in 0..(new_cap - 1) |->
                           IF i < b.cap THEN b.slots[i] ELSE Junk]]

\* a variant that leaves the elements where they were
handle_capacity_increase_nop(b, old_capacity) == b

handle_capacity_increase(b, old_capacity) ==
    IF b.head <= old_capacity - b.len THEN b
    ELSE LET head_len == old_capacity - b.head
             tail_len == b.len - head_len
         IN IF head_len > tail_len /\ b.cap - old_capacity >= tail_len
            THEN copy(b, 0, old_capacity, tail_len)
            ELSE LET new_head == b.cap - head_len
                 IN [copy(b, b.head, new_head, head_len) EXCEPT !.head = new_head]

\* VecDeque::reserve
vd_reserve(b, additional) ==
    IF b.len + additional > b.cap
    THEN handle_capacity_increase(
             realloc(b, grow_amortized(b.cap, b.len, additional)), b.cap)
    ELSE b

\* physical slot i holds one of the len elements that start at head
Live(b, i) ==
    b.cap > 0 /\ (IF i >= b.head THEN i - b.head ELSE i + b.cap - b.head) < b.len

\* the memory as the deque's users can observe it: a slot that holds no live
\* element is indeterminate
scrub(b) ==
    [b EXCEPT !.slots = [i \in 0..(b.cap - 1) |->
                           IF Live(b, i) THEN b.slots[i] ELSE Junk]]

\* copy_nonoverlapping(extend_from.as_ptr(), self.ptr().add(at), len): the slots
\* inside the allocation; a copy that runs past the capacity does not wrap
write_at(b, at, extend_from) ==
    [b EXCEPT !.slots = [i \in 0..(b.cap - 1) |->
        IF i >= at /\ i < at + Len(extend_from)
        THEN extend_from[i - at + 1] ELSE b.slots[i]]]

extend_back(b, extend_from) ==
    IF Len(extend_from) = 0 THEN [buf |-> b, oob |-> FALSE]
    ELSE LET b1 == vd_reserve(b, Len(extend_from))
             tail == to_physical_idx(b1, b1.len)
         IN [buf |-> scrub([write_at(b1, tail, extend_from)
                               EXCEPT !.len = b1.len + Len(extend_from)]),
             oob |-> tail + Len(extend_from) > b1.cap]

extend_front(b, extend_from) ==
    IF Len(extend_from) = 0 THEN [buf |-> b, oob |-> FALSE]
    ELSE LET b1 == vd_reserve(b, Len(extend_from))
             new_head == wrap_sub(b1, b1.head, Len(extend_from))
         IN [buf |-> scrub([write_at(b1, new_head, extend_from)
                               EXCEPT !.head = new_head,
                                      !.len = b1.len + Len(extend_from)]),
             oob |-> new_head + Len(extend_from) > b1.cap]

\* VecDeque::clear_front
clear_front(b, count) ==
    IF b.len > count
    THEN scrub([b EXCEPT !.head = to_physical_idx(b, count), !.len = b.len - count])
    ELSE b

\* VecDeque::clear_back
clear_back(b, count) ==
    IF b.len > count THEN scrub([b EXCEPT !.len = b.len - count]) ELSE b

\* a variant that keeps what the buffer holds
vd_clear_keep(b) == b

\* VecDeque::clear
vd_clear(b) == scrub([b EXCEPT !.len = 0, !.head = 0])

\* slots [from, to) as a sequence
buffer_range(b, from, to) == [i \in 1..(to - from) |-> b.slots[from + i - 1]]

\* VecDeque::as_slices through slice_ranges(.., len)
as_slices(b) ==
    IF b.len = 0 THEN [head |-> << >>, tail |-> << >>]
    ELSE LET wrapped_start == to_physical_idx(b, 0)
             head_len == b.cap - wrapped_start
         IN IF head_len >= b.len
            THEN [head |-> buffer_range(b, wrapped_start, wrapped_start + b.len),
                  tail |-> << >>]
            ELSE [head |-> buffer_range(b, wrapped_start, b.cap),
                  tail |-> buffer_range(b, 0, b.len - head_len)]

\* the logical content of the deque
Contents(b) == as_slices(b).head \o as_slices(b).tail

\* ------------------------------------------------------------------ inner reader
\* File<R>::read and File<R>::seek forward to the one cursor
FileRead(f, n) ==
    LET read(r) == [file |-> [f EXCEPT !.pos[0] = r.pos], n |-> r.n, data |-> r.data]
    IN read(CursorRead(0, f.pos[0], n))

FileSeek(f, req) ==
    LET c == CursorSeek(0, f.pos[0], req)
    IN IF c.res = "err" THEN [res |-> "err", val |-> 0, file |-> f, calls |-> 0]
       ELSE [res |-> "ok", val |-> c.val, file |-> [f EXCEPT !.pos[0] = c.val],
             calls |-> 0]

\* one File<R> whose cursor holds the whole stream, the concatenation of the
\* sources: its only field is the cursor's position
WholeNew == [whole |-> 0]

IsWhole(f) == "whole" \in DOMAIN f

\* File<R>::read on that File
WholeRead(f, n) ==
    LET k == Min(n, IF f.whole >= total_len THEN 0 ELSE total_len - f.whole)
    IN [file |-> [whole |-> f.whole + k], n |-> k,
        data |-> StreamBytes(f.whole, f.whole + k)]

\* File<R>::seek on that File
WholeSeek(f, req) ==
    LET new_pos == (CASE req.kind = "Start" -> 0
                      [] req.kind = "End" -> total_len
                      [] req.kind = "Current" -> f.whole) + req.off
    IN IF new_pos < 0 THEN [res |-> "err", val |-> 0, file |-> f, calls |-> 0]
       ELSE [res |-> "ok", val |-> new_pos, file |-> [whole |-> new_pos], calls |-> 0]

\* self.file.read / self.file.seek of ExactReader<R>
InnerRead(f, n) ==
    IF IsWhole(f) THEN WholeRead(f, n)
    ELSE IF single THEN FileRead(f, n) ELSE MultiFileRead(f, n)

InnerSeek(f, req) ==
    IF IsWhole(f) THEN WholeSeek(f, req)
    ELSE IF single THEN FileSeek(f, req) ELSE MultiFileSeek(f, req)

RECURSIVE TakeReadToEnd(_, _)
\* self.file.by_ref().take(limit).read_to_end(buf): Take passes reads of at
\* most limit bytes to the inner reader until the limit is used up or a read
\* returns 0; with limit == 0 the inner reader is not called
TakeReadToEnd(f, limit) ==
    IF limit = 0 THEN [file |-> f, data |-> << >>, calls |-> 0]
    ELSE LET join(r, rest) ==
                 [file |-> rest.file, data |-> r.data \o rest.data,
                  calls |-> rest.calls + 1]
             read(r) ==
                 IF r.n = 0 THEN [file |-> r.file, data |-> << >>, calls |-> 1]
                 ELSE join(r, TakeReadToEnd(r.file, limit - r.n))
         IN read(InnerRead(f, limit))

\* ------------------------------------------------------------------ reader.rs
\* the fields of ExactReader as one record
Reader == [file |-> file, file_offset_view |-> file_offset_view, buffer |-> buffer,
           buffer_offset |-> buffer_offset, seeked |-> seeked]

View(head, tail) == [start |-> head, end |-> tail]

\* a variant that takes the range as half open
Contains_halfopen(view, x) == view.start <= x /\ x < view.end

\* RangeInclusive::contains
Contains(view, x) == view.start <= x /\ x <= view.end

\* a variant that leaves out the offset into the window
physical_idx_start(r) == r.file_offset_view.start

physical_idx(r) == r.file_offset_view.start + r.buffer_offset

\* ExactReader::stream_position
stream_position == physical_idx(Reader)

\* what reserve leaves once _read fetched rd and the cache ext holds it: the
\* reader after the call, the calls made on the inner reader, the branch
\* taken, the bytes asked from the inner reader
reserved(view, offset, rd, ext, path, asked) ==
    [r |-> [file |-> rd.file,
            file_offset_view |-> view,
            buffer |-> ext.buf,
            buffer_offset |-> offset,
            seeked |-> None],
     io |-> rd.calls, oob |-> ext.oob, path |-> path, asked |-> asked]

\* a variant that appends the fetched bytes
reserve_front_append(b, view, rd, asked) ==
    reserved(view, 0, rd, extend_back(b, rd.data), "front", asked)

\* _read, then buffer.extend_front(buf)
reserve_front(b, view, rd, asked) ==
    reserved(view, 0, rd, extend_front(b, rd.data), "front", asked)

\* _read, then buffer.extend_back(buf)
reserve_back(b, view, offset, rd, path, asked) ==
    reserved(view, offset, rd, extend_back(b, rd.data), path, asked)

\* a variant that fetches and appends whatever the cache holds
reserve_always(r, reserve_size) ==
    reserve_back(r.buffer, r.file_offset_view, r.buffer_offset,
                 TakeReadToEnd(r.file, reserve_size), "append", reserve_size)

\* ExactReader::reserve
reserve(r, reserve_size) ==
    LET real_head == r.file_offset_view.start
    IN
    IF IsSome(r.seeked) THEN
        LET seek_head == r.seeked.some
            seek_tail == seek_head + reserve_size
        IN
        IF ~Contains(r.file_offset_view, seek_head)
           /\ Contains(r.file_offset_view, seek_tail)
        THEN
            reserve_front(r.buffer, View(seek_head, seek_tail),
                          TakeReadToEnd(r.file, real_head - seek_head),
                          real_head - seek_head)
        ELSE
            reserve_back(vd_clear(r.buffer), View(seek_head, seek_tail), 0,
                         TakeReadToEnd(r.file, reserve_size),
                         IF Contains(r.file_offset_view, seek_head)
                         THEN "inview" ELSE "reload",
                         reserve_size)
    ELSE IF r.buffer.len >= r.buffer_offset + reserve_size THEN
        [r |-> r, io |-> 0, oob |-> FALSE, path |-> "hit", asked |-> 0]
    ELSE
        reserve_back(r.buffer, View(real_head, real_head + r.buffer.len + 0),
                     r.buffer_offset,
                     TakeReadToEnd(r.file, reserve_size), "append", reserve_size)

\* a variant whose copy over the split point puts the second slice first
read_copy_swap(b, offset, size) ==
    LET sl == as_slices(b)
        head_len == Len(sl.head)
    IN IF offset < head_len /\ head_len - offset < size /\ offset + size <= b.len
       THEN [res |-> "ok",
             data |-> SubSeq(sl.tail, 1, size - (head_len - offset))
                      \o SubSeq(sl.head, offset + 1, head_len)]
       ELSE IF offset + size <= Len(sl.head \o sl.tail)
       THEN [res |-> "ok", data |-> SubSeq(sl.head \o sl.tail, offset + 1, offset + size)]
       ELSE [res |-> "panic", data |-> << >>]

\* a variant that copies from the start of the slices, not from buffer_offset
read_copy_nooffset(b, offset, size) ==
    LET all == as_slices(b).head \o as_slices(b).tail
    IN IF offset + size <= Len(all)
       THEN [res |-> "ok", data |-> SubSeq(all, 1, size)]
       ELSE [res |-> "panic", data |-> << >>]

\* the copy out of the two slices in ExactReader::read: the bytes, or a panic
\* when a slice is indexed past its end
read_copy(b, offset, size) ==
    LET sl == as_slices(b)
        head_len == Len(sl.head)
        adjusted_head_len == IF head_len >= offset THEN head_len - offset ELSE 0
        tail_offset == IF offset >= head_len THEN offset - head_len ELSE 0
    IN IF adjusted_head_len = 0
       THEN IF tail_offset + size <= Len(sl.tail)
            THEN [res |-> "ok", data |-> SubSeq(sl.tail, tail_offset + 1, tail_offset + size)]
            ELSE [res |-> "panic", data |-> << >>]
       ELSE IF adjusted_head_len >= size
       THEN [res |-> "ok", data |-> SubSeq(sl.head, offset + 1, offset + size)]
       ELSE IF tail_offset + size - adjusted_head_len <= Len(sl.tail)
       THEN [res |-> "ok",
             data |-> SubSeq(sl.head, offset + 1, head_len)
                      \o SubSeq(sl.tail, tail_offset + 1,
                                tail_offset + size - adjusted_head_len)]
       ELSE [res |-> "panic", data |-> << >>]

\* ------------------------------------------------------------------ calls
Configs == UNION {[0..(k - 1) -> 0..MaxFileSize] : k \in 1..MaxFiles}

\* the sources an ExactReader is built over: one File, or a MultiFile of one
\* source, or a MultiFile of two, MaxFileSize bytes in all
ReaderConfigs ==
    {[i \in 0..0 |-> MaxFileSize],
     [i \in 0..1 |-> IF i = 0 THEN 1 ELSE MaxFileSize - 1]}

SeekReqs ==
    {Start(o) : o \in 0..(total_len + 1)}
    \cup {End(o) : o \in {0 - total_len - 1} \cup ((0 - MaxDelta)..1)}
    \cup {Current(o) : o \in (0 - MaxDelta)..MaxDelta}

\* the requests made on a MultiFile used alone
SeekReqsMF ==
    {Start(o) : o \in 0..(total_len + 1)}
    \cup {End(o) : o \in (0 - total_len - 1)..1}
    \cup {Current(o) : o \in (0 - MaxReadMF)..MaxDelta}

\* what the caller's buffer holds before a read
FillBytes == {0, 255}

\* a call as its caller sees it: the request (op, kind, arg), the result (res,
\* val), the caller's buffer after the call (data), and what the call did: the
\* number of calls it made on the inner reader (io), the branch it took (path);
\* fill is the byte the caller's buffer held before a MultiFile read, asked
\* the number of bytes a reserve asked from the inner reader
Call(op, kind, arg, res, val, data, io, path) ==
    [op |-> op, kind |-> kind, arg |-> arg, res |-> res, val |-> val,
     data |-> data, io |-> io, path |-> path, fill |-> 0, asked |-> 0]

\* the offset a seek request names, resolved against the caller's position
Target(req) ==
    CASE req.kind = "Start" -> req.off
      [] req.kind = "End" -> total_len + req.off
      [] req.kind = "Current" -> logical_pos + req.off

\* the bytes an indeterminate (never written) slot may deliver
Resolve(data) ==
    IF \A i \in 1..Len(data) : data[i] # Junk THEN {data}
    ELSE {d \in [1..Len(data) -> 0..total_len] :
            \A i \in 1..Len(data) : data[i] # Junk => d[i] = data[i]}

\* a copy that ran past the allocation may corrupt the heap or go unnoticed
Outcomes(oob) == IF oob THEN {"ub", "ok"} ELSE {"ok"}

InitCommon ==
    /\ sizes \in Configs
    /\ file = MultiFileNew
    /\ file_offset_view = View(0, 0)
    /\ buffer = VecDequeNew
    /\ buffer_offset = 0
    /\ seeked = None
    /\ status = "ok"
    /\ last = Call("new", "-", 0, "ok", 0, << >>, 0, "-")
    /\ logical_pos = 0
    /\ used = {}
    /\ ideal = << >>

\* ExactReader::new_single / ExactReader::new_multi
Init ==
    /\ InitCommon
    /\ sizes \in ReaderConfigs
    /\ single \in BOOLEAN
    /\ single => NFiles = 1
    /\ twin = None

SetReader(r) ==
    /\ file' = r.file
    /\ file_offset_view' = r.file_offset_view
    /\ buffer' = r.buffer
    /\ buffer_offset' = r.buffer_offset
    /\ seeked' = r.seeked

\* the rest of read once reserve returned rs and the copy out of the cache cp
ReadCopied(size, rs, cp) ==
    \E out \in Outcomes(rs.oob) :
        IF out = "ub"
        THEN /\ SetReader(rs.r)
             /\ status' = "ub"
             /\ last' = Call("read", "-", size, "ub", 0, << >>, rs.io, rs.path)
             /\ logical_pos' = logical_pos
        ELSE IF cp.res = "panic"
        THEN /\ SetReader(rs.r)
             /\ status' = "panic"
             /\ last' = Call("read", "-", size, "panic", 0, << >>, rs.io, rs.path)
             /\ logical_pos' = logical_pos
        ELSE \E data \in Resolve(cp.data) :
             /\ SetReader([rs.r EXCEPT !.buffer_offset = @ + size])
             /\ status' = "ok"
             /\ last' = Call("read", "-", size, "ok", size, data, rs.io, rs.path)
             /\ logical_pos' = logical_pos + size

\* the rest of read once reserve returned rs
ReadReserved(size, rs) ==
    ReadCopied(size, rs, read_copy(rs.r.buffer, rs.r.buffer_offset, size))

\* <ExactReader as Read>::read with a buffer of length size
Read(size) ==
    /\ status = "ok"
    /\ logical_pos + size <= total_len + MaxRead
    /\ ReadReserved(size, reserve(Reader, size))
    /\ used' = used \cup (IF logical_pos + size > total_len THEN {"outside"} ELSE {})
    /\ UNCHANGED <<sizes, single, ideal, twin>>

\* <ExactReader as Seek>::seek
Seek(pos) ==
    /\ status = "ok"
    /\ Target(pos) <= total_len + 1
    /\ LET c == calculate_seek(total_len, physical_idx(Reader), pos)
           u == InnerSeek(file, pos)
       IN IF c.res = "err"
          THEN /\ last' = Call("seek", pos.kind, pos.off, "err", 0, << >>, 0, "-")
               /\ UNCHANGED <<file, file_offset_view, buffer, buffer_offset, seeked,
                              status, logical_pos>>
          ELSE IF Contains(file_offset_view, c.val)
          THEN /\ buffer_offset' = c.val - file_offset_view.start
               /\ last' = Call("seek", pos.kind, pos.off, "ok", c.val, << >>, 0, "inview")
               /\ logical_pos' = c.val
               /\ UNCHANGED <<file, file_offset_view, buffer, seeked, status>>
          ELSE IF u.res = "err"
          THEN /\ last' = Call("seek", pos.kind, pos.off, "err", 0, << >>, 1, "-")
               /\ UNCHANGED <<file, file_offset_view, buffer, buffer_offset, seeked,
                              status, logical_pos>>
          ELSE IF u.res = "panic"
          THEN /\ last' = Call("seek", pos.kind, pos.off, "panic", 0, << >>, 1, "-")
               /\ status' = "panic"
               /\ UNCHANGED <<file, file_offset_view, buffer, buffer_offset, seeked,
                              logical_pos>>
          ELSE /\ u.val <= total_len + 1
               /\ file' = u.file
               /\ seeked' = Some(u.val)
               /\ last' = Call("seek", pos.kind, pos.off, "ok", u.val, << >>, 1, "pending")
               /\ logical_pos' = u.val
               /\ UNCHANGED <<file_offset_view, buffer, buffer_offset, status>>
    /\ used' = used \cup {"seek"}
                    \cup (IF Target(pos) \in 0..total_len THEN {} ELSE {"outside"})
    /\ UNCHANGED <<sizes, single, ideal, twin>>

Next ==
    \/ \E size \in 0..MaxRead : Read(size)
    \/ \E pos \in SeekReqs : Seek(pos)

Spec == Init /\ [][Next]_vars

\* ------------------------------------------------------------------ reader with reserve
\* the reader once reserve returned rs
Reserved(size, rs) ==
    \E out \in Outcomes(rs.oob) :
        /\ SetReader(rs.r)
        /\ status' = out
        /\ last' = [Call("reserve", "-", size, out, 0, << >>, rs.io, rs.path)
                      EXCEPT !.asked = rs.asked]
        /\ UNCHANGED <<sizes, single, logical_pos, used, ideal, twin>>

\* ExactReader::reserve(size) called by the user of the reader
Reserve(size) ==
    /\ status = "ok"
    /\ Reserved(size, reserve(Reader, size))

NextReserve ==
    \/ \E size \in 0..MaxRead : Read(size)
    \/ \E pos \in SeekReqs : Seek(pos)
    \/ \E size \in 0..MaxRead : Reserve(size)

SpecReserve == Init /\ [][NextReserve]_vars

\* ------------------------------------------------------------------ two readers side by side
\* a call on the reader r as a function: the reader after it, what it returned
\* (res, val, data), whether a copy left the allocation (oob)
Returned(r, res, val, data, oob) ==
    [r |-> r, res |-> res, val |-> val, data |-> data, oob |-> oob]

\* the rest of seek once calculate_seek returned c; u is self.file.seek(pos)
ExactSought(r, c, u) ==
    IF c.res = "err" THEN Returned(r, "err", 0, << >>, FALSE)
    ELSE IF Contains(r.file_offset_view, c.val)
    THEN Returned([r EXCEPT !.buffer_offset = c.val - r.file_offset_view.start],
                  "ok", c.val, << >>, FALSE)
    ELSE IF u.res # "ok" THEN Returned(r, u.res, 0, << >>, FALSE)
    ELSE Returned([r EXCEPT !.file = u.file, !.seeked = Some(u.val)],
                  "ok", u.val, << >>, FALSE)

\* <ExactReader as Seek>::seek
ExactSeek(r, pos) ==
    ExactSought(r, calculate_seek(total_len, physical_idx(r), pos), InnerSeek(r.file, pos))

\* the rest of read once reserve returned rs and the copy out of the cache cp
ExactCopied(size, rs, cp) ==
    IF cp.res = "panic" THEN Returned(rs.r, "panic", 0, << >>, rs.oob)
    ELSE Returned([rs.r EXCEPT !.buffer_offset = @ + size], "ok", size, cp.data, rs.oob)

ExactReserved(size, rs) ==
    ExactCopied(size, rs, read_copy(rs.r.buffer, rs.r.buffer_offset, size))

\* <ExactReader as Read>::read with a buffer of length size
ExactRead(r, size) == ExactReserved(size, reserve(r, size))

\* Seek::stream_position
ExactPosition(r) == Returned(r, "ok", physical_idx(r), << >>, FALSE)

\* the reader over the one source and the last thing it returned
Twin(r, st, res, val, data) ==
    [r |-> r, status |-> st, res |-> res, val |-> val, data |-> data]

\* ExactReader::new_multi(sources) next to ExactReader::new_single(whole)
InitEq ==
    /\ InitCommon
    /\ sizes \in ReaderConfigs
    /\ single = FALSE
    /\ twin = Twin([file |-> WholeNew, file_offset_view |-> View(0, 0),
                    buffer |-> VecDequeNew, buffer_offset |-> 0, seeked |-> None],
                   "ok", "ok", 0, << >>)

\* the same call made on both readers: a returned on the MultiFile, b on the
\* one source
EqCalled(op, kind, arg, a, b) ==
    \E outa \in Outcomes(a.oob), outb \in Outcomes(b.oob) :
        /\ a.val <= total_len + 1
        /\ b.val <= total_len + 1
        /\ SetReader(a.r)
        /\ status' = IF outa = "ub" THEN "ub" ELSE IF a.res = "panic" THEN "panic" ELSE "ok"
        /\ last' = Call(op, kind, arg, IF outa = "ub" THEN "ub" ELSE a.res, a.val, a.data,
                        0, "-")
        /\ logical_pos' = IF outa = "ub" \/ a.res # "ok" THEN logical_pos
                          ELSE IF op = "read" THEN logical_pos + a.val
                          ELSE IF op = "seek" THEN a.val ELSE logical_pos
        /\ twin' = Twin(b.r,
                        IF outb = "ub" THEN "ub" ELSE IF b.res = "panic" THEN "panic" ELSE "ok",
                        IF outb = "ub" THEN "ub" ELSE b.res, b.val, b.data)
        /\ used' = used \cup {op}
        /\ UNCHANGED <<sizes, single, ideal>>

\* both readers are usable and returned the same so far: the calls are made
\* side by side up to the first difference
Comparable ==
    /\ status = "ok" /\ twin.status = "ok"
    /\ last.op = "new" \/ <<last.res, last.val, last.data>> = <<twin.res, twin.val, twin.data>>

EqRead(size) ==
    /\ Comparable
    /\ logical_pos + size <= total_len + MaxRead
    /\ EqCalled("read", "-", size, ExactRead(Reader, size), ExactRead(twin.r, size))

EqSeek(pos) ==
    /\ Comparable
    /\ Target(pos) <= total_len + 1
    /\ EqCalled("seek", pos.kind, pos.off, ExactSeek(Reader, pos), ExactSeek(twin.r, pos))

EqPosition ==
    /\ Comparable
    /\ EqCalled("stream_position", "-", 0, ExactPosition(Reader), ExactPosition(twin.r))

NextEq ==
    \/ \E size \in 0..MaxRead : EqRead(size)
    \/ \E pos \in SeekReqs : EqSeek(pos)
    \/ EqPosition

SpecEq == InitEq /\ [][NextEq]_vars

\* ------------------------------------------------------------------ MultiFile alone
InitMF ==
    /\ InitCommon
    /\ single = FALSE
    /\ twin = None

\* <MultiFile as Read>::read into a buffer of length size holding fill
MFRead(size, fill) ==
    /\ status = "ok"
    /\ LET r == MultiFileRead(file, size)
       IN /\ file' = r.file
          /\ last' = [Call("read", "-", size, "ok", r.n,
                           r.data \o [i \in 1..(size - r.n) |-> fill], 0, "-")
                        EXCEPT !.fill = fill]
          /\ logical_pos' = logical_pos + r.n
    /\ UNCHANGED <<used, sizes, single, file_offset_view, buffer, buffer_offset, seeked,
                    status, ideal, twin>>

\* <MultiFile as Seek>::seek
MFSeek(pos) ==
    /\ status = "ok"
    /\ LET r == MultiFileSeek(file, pos)
       IN /\ file' = r.file
          /\ last' = Call("seek", pos.kind, pos.off, r.res, r.val, << >>, 0, "-")
          /\ status' = IF r.res = "panic" THEN "panic" ELSE "ok"
          /\ logical_pos' = IF r.res = "ok" THEN r.val ELSE logical_pos
    /\ UNCHANGED <<used, sizes, single, file_offset_view, buffer, buffer_offset, seeked,
                    ideal, twin>>

NextMF ==
    \/ \E size \in 0..MaxReadMF, fill \in FillBytes : MFRead(size, fill)
    \/ \E pos \in SeekReqsMF : MFSeek(pos)

SpecMF == InitMF /\ [][NextMF]_vars

\* ------------------------------------------------------------------ MultiFile over several sources
\* MultiFile::new over NeedleFiles sources, none of them empty
InitNF ==
    /\ sizes \in [0..(NeedleFiles - 1) -> 1..NeedleFileSize]
    /\ single = FALSE
    /\ file = MultiFileNew
    /\ file_offset_view = View(0, 0)
    /\ buffer = VecDequeNew
    /\ buffer_offset = 0
    /\ seeked = None
    /\ status = "ok"
    /\ last = Call("new", "-", 0, "ok", 0, << >>, 0, "-")
    /\ logical_pos = 0
    /\ used = {}
    /\ ideal = << >>
    /\ twin = None

SpecNF == InitNF /\ [][NextMF]_vars

\* ------------------------------------------------------------------ calculate_seek alone
\* every request the argument types can hold
SeekFroms ==
    {Start(o) : o \in 0..UMax}
    \cup {End(o) : o \in IMin..IMax}
    \cup {Current(o) : o \in IMin..IMax}

\* the calls are made with size = total_len
InitCS ==
    /\ InitCommon
    /\ NFiles = 1
    /\ single = TRUE
    /\ twin = None

\* what the caller gets from an addition that left i64: a panic in a build
\* with overflow checks, the wrapped sum in one without
Built(c, overflow_checks) ==
    IF c.res # "overflow" THEN c
    ELSE IF overflow_checks THEN Panic
    ELSE IF c.val < 0 THEN Err ELSE Ok(c.val)

CalcSeekDone(current_offset, pos, c) ==
    /\ last' = Call("calculate_seek", pos.kind, pos.off, c.res, c.val, << >>, 0, "-")
    /\ logical_pos' = current_offset
    /\ UNCHANGED <<sizes, single, file, file_offset_view, buffer, buffer_offset,
                    seeked, status, used, ideal, twin>>

\* calculate_seek(total_len, current_offset, pos); logical_pos keeps the
\* position the call was made with
CalcSeek(current_offset, pos, overflow_checks) ==
    CalcSeekDone(current_offset, pos,
                 Built(calculate_seek(total_len, current_offset, pos), overflow_checks))

NextCS ==
    \E current_offset \in 0..MaxFileSize, pos \in SeekFroms, overflow_checks \in BOOLEAN :
        CalcSeek(current_offset, pos, overflow_checks)

SpecCS == InitCS /\ [][NextCS]_vars

\* ------------------------------------------------------------------ wrap_copy alone
\* a full buffer of capacity c whose slots all hold different values
InitWC ==
    /\ \E c \in 1..MaxWrapCap :
          buffer = [head |-> 0, len |-> c, cap |-> c, slots |-> [i \in 0..(c - 1) |-> i + 1]]
    /\ sizes = [i \in 0..0 |-> 0]
    /\ single = FALSE
    /\ file = MultiFileNew
    /\ file_offset_view = View(0, 0)
    /\ buffer_offset = 0
    /\ seeked = None
    /\ status = "ok"
    /\ last = Call("new", "-", 0, "ok", 0, << >>, 0, "-")
    /\ logical_pos = 0
    /\ used = {}
    /\ ideal = << >>
    /\ twin = None

\* the distance the debug_assert! of wrap_copy bounds
abs_diff(a, b) == IF a >= b THEN a - b ELSE b - a

\* wrap_copy(src, dst, len) on the buffer, made on a buffer of different
\* values or on what one call left of it; ideal keeps the slots before the call
WrapCopy(src, dst, len) ==
    /\ status = "ok"
    /\ ideal \in {<< >>, [i \in 1..buffer.cap |-> i]}
    /\ Min(abs_diff(src, dst), buffer.cap - abs_diff(src, dst)) + len <= buffer.cap
    /\ buffer' = wrap_copy(buffer, src, dst, len)
    /\ ideal' = [i \in 1..buffer.cap |-> buffer.slots[i - 1]]
    /\ last' = Call("wrap_copy", "-", <<src, dst, len>>, "ok", 0, << >>, 0, "-")
    /\ UNCHANGED <<sizes, single, file, file_offset_view, buffer_offset, seeked, status,
                    logical_pos, used, twin>>

NextWC ==
    \E src \in 0..(buffer.cap - 1), dst \in 0..(buffer.cap - 1), len \in 0..buffer.cap :
        WrapCopy(src, dst, len)

SpecWC == InitWC /\ [][NextWC]_vars

\* ------------------------------------------------------------------ growth alone
\* a ring buffer of capacity c holding the elements 1..n from slot h on
Ring(c, h, n) ==
    scrub([head |-> h, len |-> n, cap |-> c,
           slots |-> [i \in 0..(c - 1) |-> (IF i >= h THEN i - h ELSE i + c - h) + 1]])

\* every head, len and capacity a VecDeque can have
InitGrow ==
    /\ \E c \in 0..MaxGrowCap, h \in 0..MaxGrowCap, n \in 0..MaxGrowCap :
          /\ n <= c
          /\ IF c = 0 THEN h = 0 ELSE h < c
          /\ buffer = Ring(c, h, n)
          /\ ideal = [i \in 1..n |-> i]
    /\ sizes = [i \in 0..0 |-> 0]
    /\ single = FALSE
    /\ file = MultiFileNew
    /\ file_offset_view = View(0, 0)
    /\ buffer_offset = 0
    /\ seeked = None
    /\ status = "ok"
    /\ last = Call("new", "-", 0, "ok", 0, << >>, 0, "-")
    /\ logical_pos = 0
    /\ used = {}
    /\ twin = None

\* the buffer is reallocated with new_capacity slots, then
\* handle_capacity_increase(old_cap) runs; val keeps old_cap
Grow(new_capacity) ==
    /\ status = "ok"
    /\ new_capacity > buffer.cap
    /\ new_capacity <= MaxGrowCap + MaxGrowBy
    /\ buffer' = scrub(handle_capacity_increase(realloc(buffer, new_capacity), buffer.cap))
    /\ last' = Call("grow", "-", new_capacity, "ok", buffer.cap, << >>, 0, "-")
    /\ UNCHANGED <<sizes, single, file, file_offset_view, buffer_offset, seeked, status,
                    logical_pos, used, ideal, twin>>

NextGrow == \E new_capacity \in 1..(MaxGrowCap + MaxGrowBy) : Grow(new_capacity)

SpecGrow == InitGrow /\ [][NextGrow]_vars

\* ------------------------------------------------------------------ VecDeque alone
\* the slices handed to extend_back: up to MaxExtend elements 1
BackSlices == {[i \in 1..n |-> 1] : n \in 0..MaxExtend}

\* the slices handed to extend_front: up to MaxExtend elements 2, which
\* extend_back never adds
FrontSlices == {[i \in 1..n |-> 2] : n \in 0..MaxExtend}

\* count calls of pop_front on a double-ended queue holding s
PopFront(s, count) == SubSeq(s, Min(count, Len(s)) + 1, Len(s))

\* count calls of pop_back on a double-ended queue holding s
PopBack(s, count) == SubSeq(s, 1, Len(s) - Min(count, Len(s)))

InitVD ==
    /\ InitCommon
    /\ sizes = [i \in 0..0 |-> 0]
    /\ single = FALSE
    /\ twin = None

\* the deque after a call that left b, for every outcome of the call
VDSet(op, arg, b, oob, seq) ==
    \E out \in Outcomes(oob) :
        /\ buffer' = b
        /\ status' = out
        /\ ideal' = seq
        /\ last' = Call(op, "-", arg, out, 0, << >>, 0, "-")
        /\ UNCHANGED <<sizes, single, file, file_offset_view, buffer_offset, seeked,
                        logical_pos, used, twin>>

VDExtended(op, d, e, seq) == VDSet(op, Len(d), e.buf, e.oob, seq)

\* VecDeque::extend_back(d)
VDExtendBack(d) ==
    /\ status = "ok"
    /\ Max(buffer.len, Len(ideal)) + Len(d) <= MaxDequeLen
    /\ VDExtended("extend_back", d, extend_back(buffer, d), ideal \o d)

\* VecDeque::extend_front(d)
VDExtendFront(d) ==
    /\ status = "ok"
    /\ Max(buffer.len, Len(ideal)) + Len(d) <= MaxDequeLen
    /\ VDExtended("extend_front", d, extend_front(buffer, d), d \o ideal)

\* VecDeque::clear_front(count)
VDClearFront(count) ==
    /\ status = "ok"
    /\ VDSet("clear_front", count, clear_front(buffer, count), FALSE,
             PopFront(ideal, count))

\* VecDeque::clear_back(count)
VDClearBack(count) ==
    /\ status = "ok"
    /\ VDSet("clear_back", count, clear_back(buffer, count), FALSE,
             PopBack(ideal, count))

\* VecDeque::clear
VDClear ==
    /\ status = "ok"
    /\ VDSet("clear", 0, vd_clear(buffer), FALSE, << >>)

NextVD ==
    \/ \E d \in BackSlices : VDExtendBack(d)
    \/ \E d \in FrontSlices : VDExtendFront(d)
    \/ \E count \in 0..MaxClear : VDClearFront(count)
    \/ \E count \in 0..MaxClear : VDClearBack(count)
    \/ VDClear

SpecVD == InitVD /\ [][NextVD]_vars

\* ------------------------------------------------------------------ properties
\* position of the read cursor as ExactReader reports it
ReportedPos == file_offset_view.start + buffer_offset

\* offset x lies in the window [start, end] of the cache
InWindow(x) == file_offset_view.start <= x /\ x <= file_offset_view.end

\* the offset in the stream at which the underlying source stands
SourcePos ==
    IF single THEN file.pos[0]
    ELSE SumSizes(0, file.current_file_idx) + file.pos[file.current_file_idx]

\* the offset a request resolves to from position cur: base + delta
Resolved(kind, off, cur) ==
    CASE kind = "Start" -> off
      [] kind = "End" -> total_len + off
      [] kind = "Current" -> cur + off

\* C1: as long as every seek and read stays inside the stream, a read of n
\* bytes returns the stream bytes [p, p + n), p being the position set by the
\* most recent seek or the end of the previous read.
C1_ReadReturnsStreamBytes ==
    (last.op = "read" /\ "outside" \notin used)
        => /\ last.res = "ok"
           /\ last.data = StreamBytes(logical_pos - last.arg, logical_pos)

\* C2: reads with no seek in between, not passing the end of the stream, return
\* consecutive chunks of the stream from offset 0: each read returns the bytes
\* [k, k + n) where k is the number of bytes returned before it, so that the
\* concatenation of what was returned is the prefix of the stream.
C2_SequentialReadsArePrefix ==
    ("seek" \notin used /\ "outside" \notin used)
        => /\ status = "ok"
           /\ last.op = "read"
                => /\ last.res = "ok"
                   /\ last.val = last.arg
                   /\ last.data = StreamBytes(logical_pos - last.arg, logical_pos)

\* a read that had to fetch and crossed into the second source of a MultiFile
C2_Witness ==
    /\ "seek" \notin used /\ "outside" \notin used
    /\ last.op = "read" /\ last.arg = 2 /\ last.path = "append"
    /\ ~single /\ file.current_file_idx = 1
    /\ buffer_offset = total_len

\* C3: seek(Start(p)) with p in [0, total_size] succeeds, and stream_position()
\* then returns p.
C3_SeekStartThenPosition ==
    (last.op = "seek" /\ last.kind = "Start" /\ last.arg \in 0..total_len)
        => /\ last.res = "ok"
           /\ ReportedPos = last.arg

\* C4: seek(Current(0)) leaves stream_position() as it was, and when that
\* position lies in the window it makes no call on the inner reader.
C4_SeekCurrentZero ==
    [][(last'.op = "seek" /\ last'.kind = "Current" /\ last'.arg = 0)
          => /\ ReportedPos' = ReportedPos
             /\ InWindow(ReportedPos) => (last'.io = 0 /\ file' = file)]_vars

\* seek(Current(0)) at the upper end of a window that holds bytes
C4_Witness ==
    /\ last.op = "seek" /\ last.kind = "Current" /\ last.arg = 0
    /\ last.res = "ok" /\ last.io = 0
    /\ ReportedPos = file_offset_view.end
    /\ file_offset_view.end > file_offset_view.start
    /\ buffer.len > 0

\* C5: a seek back into a region that was read and is still in the cache makes
\* no call on the inner reader (the re-read is then served from the cache).
C5_SeekBackNoIO ==
    (/\ last.op = "seek" /\ last.res = "ok" /\ "outside" \notin used
     /\ buffer_offset <= buffer.len
     /\ last.val >= file_offset_view.start
     /\ last.val < file_offset_view.start + buffer_offset)
        => last.io = 0

\* C6: a read that the end of the stream cuts short returns the bytes there
\* are; it does not fail.
C6_ShortReadAtEnd ==
    last.op = "read" => last.res = "ok"

\* C7: MultiFile::read into a buffer of length L at position q returns
\* k = min(L, total_size - q), puts the stream bytes [q, q + k) in buf[0..k)
\* and leaves buf[k..L) as the caller passed it.
C7_MultiFileRead ==
    last.op = "read"
        => LET L == last.arg
               q == logical_pos - last.val
               k == Min(L, total_len - q)
           IN /\ last.val = k
              /\ Len(last.data) = L
              /\ \A i \in 1..L :
                   last.data[i] = IF i <= k THEN StreamByte(q + i - 1) ELSE last.fill

\* a read that crossed a source boundary and was cut short by the end
C7_Witness ==
    /\ last.op = "read" /\ NFiles = 2
    /\ last.val < last.arg
    /\ last.val > sizes[1] /\ sizes[1] > 0

\* C8: MultiFile::seek to Start(t), or End(d) with t = total_size + d, for
\* 0 <= t < total_size returns t, and the read that follows yields the stream
\* bytes [t, min(t + n, total_size)), whatever came before.
C8_MultiFileSeekThenRead ==
    (/\ last.op = "seek" /\ last.kind \in {"Start", "End"}
     /\ Resolved(last.kind, last.arg, 0) \in 0..(total_len - 1))
        => LET t == Resolved(last.kind, last.arg, 0)
           IN /\ last.res = "ok"
              /\ last.val = t
              /\ \A n \in 0..MaxReadMF :
                   /\ MultiFileRead(file, n).n = Min(n, total_len - t)
                   /\ MultiFileRead(file, n).data = StreamBytes(t, Min(t + n, total_len))

\* a seek from the end back into the first of two sources
C8_Witness ==
    /\ last.op = "seek" /\ last.kind = "End" /\ last.res = "ok"
    /\ NFiles = 2 /\ sizes[0] > 1 /\ sizes[1] > 0
    /\ last.val = 1
    /\ file.pos[1] = 0

\* C9: a seek to an absolute offset beyond total_size succeeds and returns that
\* offset, and the read that follows returns no bytes instead of failing.
C9_SeekPastEnd ==
    (last.op = "seek" /\ last.kind = "Start" /\ last.arg > total_len)
        => /\ last.res = "ok"
           /\ last.val = last.arg
           /\ \A n \in 1..MaxRead :
                LET rs == reserve(Reader, n)
                IN read_copy(rs.r.buffer, rs.r.buffer_offset, n).res = "ok"

\* C10: a seek whose offset resolves (from the position the reader reports)
\* below zero returns InvalidInput, and a seek that returns an error leaves the
\* reader, the MultiFile and every source as they were.
C10_NegativeSeek ==
    [][last'.op = "seek"
          => /\ Resolved(last'.kind, last'.arg, ReportedPos) < 0
                => last'.res = "err"
             /\ (/\ ~single
                 /\ Resolved(last'.kind, last'.arg, ReportedPos) >= 0
                 /\ ~InWindow(Resolved(last'.kind, last'.arg, ReportedPos))
                 /\ Resolved(last'.kind, last'.arg, physical_offset(file)) < 0)
                => last'.res = "err"
             /\ last'.res = "err"
                => UNCHANGED <<file, file_offset_view, buffer, buffer_offset,
                               seeked, status>>]_vars

\* a seek relative to the current position that was refused once bytes were cached
C10_Witness ==
    /\ last.op = "seek" /\ last.kind = "Current" /\ last.res = "err"
    /\ buffer.len > 0 /\ ReportedPos > 0

\* C11: after any sequence of extend_back, extend_front, clear_front,
\* clear_back and clear that stayed within defined behaviour, the two slices of
\* as_slices() joined are the sequence an ideal double-ended queue holds after
\* the same calls (clear_front and clear_back standing for that many
\* pop_front and pop_back), and len <= capacity.
C11_SlicesMatchIdeal ==
    status = "ok" =>
        /\ as_slices(buffer).head \o as_slices(buffer).tail = ideal
        /\ buffer.len <= buffer.cap

\* C18: in every ring-buffer state reached within defined behaviour,
\* len <= capacity, and head < capacity, or head = 0 when the capacity is 0.
C18_DequeFieldsInRange ==
    status = "ok" =>
        /\ buffer.len <= buffer.cap
        /\ buffer.head >= 0
        /\ IF buffer.cap = 0 THEN buffer.head = 0 ELSE buffer.head < buffer.cap

\* a deque that grew past its first allocation while its elements wrapped
\* around the end, so that the head section was moved to the end of the new one
C18_Witness ==
    /\ status = "ok"
    /\ buffer.cap > MIN_NON_ZERO_CAP
    /\ buffer.head > MIN_NON_ZERO_CAP
    /\ buffer.len > MIN_NON_ZERO_CAP
    /\ last.op = "extend_front"

\* C13: calculate_seek(size, current, request) returns base + delta, with base
\* 0 for Start, size for End and current for Current, when that is not
\* negative, and the InvalidInput error exactly when it is negative, for every
\* request the argument types can hold.
C13_CalculateSeek ==
    last.op = "calculate_seek" =>
        IF Resolved(last.kind, last.arg, logical_pos) < 0
        THEN last.res = "err"
        ELSE last.res = "ok" /\ last.val = Resolved(last.kind, last.arg, logical_pos)

\* C14: in every state an ExactReader reaches by seek, reserve and read calls
\* that returned, buffer_offset <= len(buffer).
C14_OffsetWithinBuffer == status = "ok" => buffer_offset <= buffer.len

\* C15: in every state an ExactReader reaches by seek and read calls that
\* returned, the cache holds the run of the stream that starts at the window
\* start: buffer[i] = stream[window.start + i] for every i < len(buffer).
C15_CacheIsContiguousRun ==
    status = "ok" =>
        \A i \in 1..buffer.len :
            (as_slices(buffer).head \o as_slices(buffer).tail)[i]
                = StreamByte(file_offset_view.start + i - 1)

\* C16: in every state of a MultiFile with at least one source, reached by any
\* reads and seeks, 0 <= current_file_idx < number of sources and cumul_offset
\* is the sum of the sizes of the sources before current_file_idx.
C16_MultiFileIndexAndCumul ==
    /\ 0 <= file.current_file_idx
    /\ file.current_file_idx < NFiles
    /\ file.cumul_offset = SumSizes(0, file.current_file_idx)

\* a seek back to the first source after a read that went into the last one
C16_Witness ==
    /\ NFiles = MaxFiles
    /\ \A i \in DOMAIN sizes : sizes[i] > 0
    /\ last.op = "seek" /\ last.res = "ok"
    /\ file.current_file_idx = 0
    /\ file.pos[NFiles - 1] = 0 /\ file.pos[0] > 0
    /\ logical_pos > 0

\* C17: in every MultiFile state, cumul_offset + infile_offset equals the true
\* position: the value the last seek returned plus the bytes returned by the
\* reads since, or the bytes read so far when no seek was made.
C17_PhysicalOffsetIsPosition ==
    status = "ok" => file.cumul_offset + file.infile_offset = logical_pos

\* C19: a seek that returns, made while no seek is pending (so that the
\* position the reader reports is its logical position), resolves its target
\* as base + delta from the reader's total size and that position; it returns
\* that target, and when the target lies outside the window the pending seek
\* is that target and the underlying source stands at that target.
C19_SeekResolvesOwnPosition ==
    [][(last'.op = "seek" /\ last'.res = "ok" /\ seeked = None)
          => /\ last'.val = Resolved(last'.kind, last'.arg, ReportedPos)
             /\ ~InWindow(Resolved(last'.kind, last'.arg, ReportedPos))
                  => /\ seeked' = Some(Resolved(last'.kind, last'.arg, ReportedPos))
                     /\ SourcePos' = Resolved(last'.kind, last'.arg, ReportedPos)]_vars

\* C20: a seek whose target, resolved from the position the reader reports,
\* lies within the window succeeds with that target, makes no call on the
\* underlying source and leaves the window, the cache, the pending seek and
\* the source unchanged; buffer_offset becomes target - window.start.
C20_SeekInWindowFrame ==
    [][(/\ last'.op = "seek"
        /\ Resolved(last'.kind, last'.arg, ReportedPos) >= 0
        /\ InWindow(Resolved(last'.kind, last'.arg, ReportedPos)))
          => /\ last'.res = "ok"
             /\ last'.val = Resolved(last'.kind, last'.arg, ReportedPos)
             /\ last'.io = 0
             /\ UNCHANGED <<file, file_offset_view, buffer, seeked>>
             /\ buffer_offset' = Resolved(last'.kind, last'.arg, ReportedPos)
                                    - file_offset_view.start]_vars

\* a Current-relative seek backwards inside a window of more than one offset
C20_Witness ==
    /\ last.op = "seek" /\ last.kind = "Current" /\ last.arg < 0
    /\ last.res = "ok" /\ last.io = 0
    /\ file_offset_view.end > file_offset_view.start
    /\ buffer_offset > 0
    /\ buffer.len > buffer_offset

\* C12: every seek, read and stream_position call returns the same on an
\* ExactReader over a MultiFile of the sources as on an ExactReader over one
\* source holding their concatenation: the same result (a value, an error or
\* a panic), the same offset and the same bytes.
C12_MultiEqualsSingle ==
    last.op \in {"read", "seek", "stream_position"}
        => /\ last.res = twin.res
           /\ last.val = twin.val
           /\ last.data = twin.data

\* C21: reserve(n) called with a pending seek whose target lies within the
\* window issues no read to the source and leaves the window bounds and the
\* cache unchanged; buffer_offset becomes target - window.start.
C21_ReservePendingInWindow ==
    [][(/\ last'.op = "reserve"
        /\ IsSome(seeked)
        /\ Contains(file_offset_view, seeked.some))
          => /\ last'.io = 0
             /\ file_offset_view' = file_offset_view
             /\ buffer' = buffer
             /\ buffer_offset' = seeked.some - file_offset_view.start]_vars

C23_ReserveReload ==
    [][(/\ last'.op = "reserve" /\ last'.res = "ok"
        /\ IsSome(seeked)
        /\ ~Contains(file_offset_view, seeked.some)
        /\ ~Contains(file_offset_view, seeked.some + last'.arg))
          => /\ as_slices(buffer').head \o as_slices(buffer').tail
                  = StreamBytes(seeked.some, Min(seeked.some + last'.arg, total_len))
             /\ file_offset_view'.start = seeked.some
             /\ buffer_offset' = 0]_vars

\* a reload of MaxRead bytes from a target past the start of the stream
C23_Witness ==
    /\ last.op = "reserve" /\ last.res = "ok" /\ last.path = "reload" /\ last.io > 0
    /\ last.arg = MaxRead
    /\ buffer.len = MaxRead
    /\ buffer.cap >= MIN_NON_ZERO_CAP
    /\ file_offset_view.start > 0
    /\ buffer_offset = 0

\* C24: reserve(n) called with no pending seek and a cache of at least
\* buffer_offset + n bytes makes no call on the source and leaves the cache,
\* the window, buffer_offset and the pending seek as they were.
C24_ReserveCacheHit ==
    [][(/\ last'.op = "reserve"
        /\ seeked = None
        /\ buffer.len >= buffer_offset + last'.arg)
          => /\ last'.io = 0
             /\ last'.res = "ok"
             /\ UNCHANGED <<file, file_offset_view, buffer, buffer_offset, seeked>>]_vars

\* a hit on bytes cached ahead of a position inside the cache
C24_Witness ==
    /\ last.op = "reserve" /\ last.path = "hit" /\ last.arg > 0
    /\ seeked = None
    /\ buffer_offset > 0
    /\ buffer.len >= buffer_offset + last.arg

\* C25: reserve(n) called with no pending seek and a cache shorter than
\* buffer_offset + n asks the source for the missing suffix only, that is for
\* exactly buffer_offset + n - len(buffer) bytes.
C25_ReserveAsksMissingSuffix ==
    [][(/\ last'.op = "reserve"
        /\ seeked = None
        /\ buffer.len < buffer_offset + last'.arg)
          => last'.asked = buffer_offset + last'.arg - buffer.len]_vars

\* C26: whenever reserve appends to the cache, the bytes it appends are the
\* stream bytes that start at window.start + len(buffer): the source stood at
\* the logical end of the cache and no cached byte is fetched again.
C26_AppendContinuesCache ==
    [][(last'.op = "read" /\ last'.path = "append" /\ last'.res # "ub")
          => /\ buffer'.len >= buffer.len
             /\ as_slices(buffer').head \o as_slices(buffer').tail
                  = (as_slices(buffer).head \o as_slices(buffer).tail)
                    \o StreamBytes(file_offset_view.start + buffer.len,
                                   file_offset_view.start + buffer'.len)]_vars

\* C27: once reserve has appended fetched bytes with no seek pending, the
\* window covers them: window.end = window.start + len(buffer).
C27_WindowCoversAppended ==
    (last.op = "read" /\ last.path = "append" /\ last.res = "ok")
        => file_offset_view.end = file_offset_view.start + buffer.len

\* what read does on the reader rs.r that reserve left, when its cache holds
\* at least buffer_offset + size bytes
CopiesRange(size, rs) ==
    rs.r.buffer.len >= rs.r.buffer_offset + size
        => /\ last'.res = "ok"
           /\ last'.val = size
           /\ last'.data \in Resolve(SubSeq(Contents(rs.r.buffer), rs.r.buffer_offset + 1,
                                            rs.r.buffer_offset + size))
           /\ buffer' = rs.r.buffer
           /\ buffer_offset' = rs.r.buffer_offset + size

\* C28: a read of n bytes whose cache holds at least buffer_offset + n bytes
\* after reserve returns n, delivers the logical cache elements
\* [buffer_offset, buffer_offset + n) in order, wherever they lie in the two
\* slices, and advances buffer_offset by n.
C28_ReadCopiesRange ==
    [][(last'.op = "read" /\ last'.res # "ub")
          => CopiesRange(last'.arg, reserve(Reader, last'.arg))]_vars

\* a read whose range began in the first slice and ended in the second
C28_Witness ==
    /\ last.op = "read" /\ last.res = "ok" /\ last.arg = MaxRead
    /\ buffer_offset - last.arg < Len(as_slices(buffer).head)
    /\ Len(as_slices(buffer).head) < buffer_offset
    /\ buffer_offset <= buffer.len
    /\ last.data = StreamBytes(file_offset_view.start + buffer_offset - last.arg,
                               file_offset_view.start + buffer_offset)

\* C29: a call of reserve(n) makes one bounded sequence of reads on the source
\* at most (never more calls than the bytes it asks for), and makes no call
\* when the cache already holds the n bytes from the caller's position on.
C29_ReserveFetchesOnce ==
    [][last'.op = "reserve"
          => /\ last'.io <= last'.asked
             /\ (/\ file_offset_view.start <= logical_pos
                 /\ logical_pos + last'.arg <= file_offset_view.start + buffer.len)
                   => last'.io = 0]_vars

\* C30: in every reachable MultiFile state needle_to_file finds a source for
\* every offset t with 0 <= t <= total_len, the end of the stream included,
\* and answers None only for t > total_len.
C30_NeedleToFileTotal ==
    status = "ok"
        => \A t \in 0..(total_len + 1) :
              needle_to_file(file, t).kind = IF t <= total_len THEN "some" ELSE "none"

\* the source that holds offset t of the stream
Containing(t) == CHOOSE i \in DOMAIN sizes : SumSizes(0, i) <= t /\ t < SumSizes(0, i + 1)

\* C31: in every reachable MultiFile state and for every offset t in
\* [0, total_len), needle_to_file returns the source that contains t,
\* whichever way it scans from the current source.
C31_NeedleToFileContaining ==
    status = "ok"
        => \A t \in 0..(total_len - 1) :
              needle_to_file(file, t) = [kind |-> "some", idx |-> Containing(t)]

\* C32: after every MultiFile seek and read, every source before the current
\* one stands at its end and every source after it stands at its start.
C32_SourcesAroundCurrent ==
    status = "ok"
        => \A i \in DOMAIN sizes :
              /\ i < file.current_file_idx => file.pos[i] = sizes[i]
              /\ i > file.current_file_idx => file.pos[i] = 0

\* a seek back into the middle source after the last source had been read
C32_Witness ==
    /\ NFiles = NeedleFiles
    /\ last.op = "seek" /\ last.res = "ok" /\ last.kind = "Current" /\ last.arg < 0
    /\ file.current_file_idx = 1
    /\ file.pos[0] = sizes[0]
    /\ file.pos[1] > 0
    /\ file.pos[2] = 0

\* C33: wrap_copy(src, dst, len), called within the bound its debug_assert!
\* states, leaves slot (dst + i) mod cap holding what slot (src + i) mod cap
\* held before the call, for every i < len.
C33_WrapCopy ==
    last.op = "wrap_copy"
        => \A i \in 0..(last.arg[3] - 1) :
              buffer.slots[(last.arg[2] + i) % buffer.cap]
                 = ideal[((last.arg[1] + i) % buffer.cap) + 1]

\* a copy whose source and destination both wrap and that moved different values
C33_Witness ==
    /\ last.op = "wrap_copy"
    /\ buffer.cap = MaxWrapCap
    /\ last.arg[1] + last.arg[3] > buffer.cap
    /\ last.arg[2] + last.arg[3] > buffer.cap
    /\ last.arg[1] # last.arg[2]
    /\ ideal = [i \in 1..buffer.cap |-> i]
    /\ \E i \in 0..(buffer.cap - 1) : buffer.slots[i] # ideal[i + 1]

\* C34: an extend_back or extend_front of additional > 0 elements that needs
\* len + additional > capacity grows the capacity to
\* max(2 * capacity, len + additional, MIN_NON_ZERO_CAP) and leaves it as it
\* is otherwise; no extend or clear operation lowers the capacity.
C34_CapacityGrowth ==
    [][/\ buffer'.cap >= buffer.cap
       /\ (last'.op \in {"extend_back", "extend_front"} /\ last'.arg > 0)
             => buffer'.cap = IF buffer.len + last'.arg > buffer.cap
                              THEN Max(MIN_NON_ZERO_CAP,
                                       Max(2 * buffer.cap, buffer.len + last'.arg))
                              ELSE buffer.cap]_vars

\* an extend that doubled a capacity of MIN_NON_ZERO_CAP
C34_Witness ==
    /\ last.op \in {"extend_back", "extend_front"} /\ last.arg > 0 /\ last.res = "ok"
    /\ buffer.cap = 2 * MIN_NON_ZERO_CAP
    /\ buffer.len > MIN_NON_ZERO_CAP
    /\ buffer.len - last.arg <= MIN_NON_ZERO_CAP

\* C35: growing the ring buffer keeps the logical sequence of elements for
\* every head, len, old and new capacity. Contiguous data is not moved;
\* wrapped data has either its wrapped tail moved (head stays) or its head
\* segment moved to the end of the new allocation.
C35_GrowthKeepsSequence ==
    [][last'.op = "grow"
          => /\ Contents(buffer') = Contents(buffer)
             /\ buffer'.len = buffer.len
             /\ buffer.head + buffer.len <= buffer.cap
                   => /\ buffer'.head = buffer.head
                      /\ \A i \in 0..(buffer.cap - 1) : buffer'.slots[i] = buffer.slots[i]
             /\ buffer.head + buffer.len > buffer.cap
                   => \/ buffer'.head = buffer.head
                      \/ buffer'.head = buffer'.cap - (buffer.cap - buffer.head)]_vars

\* a growth by one slot that moved a head segment of two or more elements
\* over itself, the tail staying wrapped
C35_Witness ==
    /\ last.op = "grow"
    /\ buffer.cap = last.val + 1
    /\ buffer.head + buffer.len > buffer.cap
    /\ buffer.cap - buffer.head >= 2
    /\ Contents(buffer) = ideal
    /\ buffer.len >= 3

\* C36: clear_front(count) and clear_back(count) with count <= len remove
\* exactly count elements from the front, respectively the back, count = len
\* leaving the buffer empty, and keep the other elements in order.
C36_ClearRemovesCount ==
    [][/\ (last'.op = "clear_front" /\ last'.arg <= buffer.len)
             => Contents(buffer') = SubSeq(Contents(buffer), last'.arg + 1, buffer.len)
       /\ (last'.op = "clear_back" /\ last'.arg <= buffer.len)
             => Contents(buffer') = SubSeq(Contents(buffer), 1, buffer.len - last'.arg)]_vars

\* C37: when a seek to an offset outside the window is followed, with no read
\* in between, by a seek to an offset B inside the window, the pending seek
\* does not decide the next read: that read returns the stream bytes from B on.
C37_LastSeekDecidesRead ==
    [][(/\ last.op = "seek" /\ last.res = "ok" /\ last.path = "inview"
        /\ IsSome(seeked)
        /\ last'.op = "read"
        /\ last.val + last'.arg <= total_len)
          => /\ last'.res = "ok"
             /\ last'.data = StreamBytes(last.val, last.val + last'.arg)]_vars

\* C38: no extend_back and no extend_front writes past the end of the
\* allocation: every element lands at a physical index below the capacity.
C38_ExtendStaysInAllocation ==
    [][/\ last'.op = "extend_back"
             => ~extend_back(buffer, [i \in 1..last'.arg |-> 1]).oob
       /\ last'.op = "extend_front"
             => ~extend_front(buffer, [i \in 1..last'.arg |-> 2]).oob]_vars

\* the read of size bytes on the reader that the seek, returning s, left,
\* next to the same read on r without the seek
SameRead(r, s, size) ==
    s.res = "ok"
        => /\ ExactRead(s.r, size).res = ExactRead(r, size).res
           /\ ExactRead(s.r, size).data = ExactRead(r, size).data

\* C39: in every reachable state seek(Current(0)) changes nothing a caller can
\* see: the read that follows it returns the bytes the same read returns
\* without the seek.
C39_SeekCurrentZeroNoOp ==
    status = "ok"
        => \A size \in 0..MaxRead : SameRead(Reader, ExactSeek(Reader, Current(0)), size)

\* C40: a MultiFile read into an empty buffer returns 0 and leaves
\* current_file_idx, cumul_offset, infile_offset and the position of every
\* source as they were.
C40_EmptyReadChangesNothing ==
    [][(last'.op = "read" /\ last'.arg = 0)
          => /\ last'.val = 0
             /\ file' = file]_vars
====
